---- MODULE Spec2Model ----
(***************************************************************************)
(* Model of the email-to-transaction pipeline of the HDFC expense          *)
(* dashboard: the App component (src/App.tsx, lines 372-545), the text     *)
(* extraction service (src/services/geminiService.ts) and the mailbox      *)
(* client (src/services/gmailService.ts).                                  *)
(*                                                                         *)
(* The browser runs one thread; an async handler runs without interruption *)
(* from one await to the next.  Every action below is one such segment:    *)
(* the code of a handler from its entry (or from the resumption of an      *)
(* await) to its next await (or its return), followed by the persistence   *)
(* effect React runs when transactions or syncedIds changed.               *)
(***************************************************************************)
EXTENDS Integers, Sequences, FiniteSets, TLC

(* ------------------------------ bounds --------------------------------- *)
\* number of handleGmailSync runs that get past the token check
MaxSyncs == 2
\* number of handleManualParse calls
MaxManual == 1
\* number of messages the mailbox can hold (ids 1..MaxMsgs, provider order)
MaxMsgs == 3
\* code points in a mail body given to safeDecode
MaxText == 3

(* ---------------------------- constants -------------------------------- *)
Null == "null"
Token == "tok"

MsgIds == 1..MaxMsgs
RunIds == 1..MaxSyncs

\* src/types.ts ExpenseCategory
ExpenseCategory ==
  {"Food & Dining", "Shopping", "Transport", "Utilities & Bills",
   "Entertainment", "Health", "Travel", "Other", "Income"}

\* transactionSchema.required
RequiredFields == {"amount", "merchant", "date", "category", "type", "description"}

(* ------------------------- model responses ----------------------------- *)
\* JSON objects the model may answer with (response.text after JSON.parse)
GoodJson ==
  [amount |-> 5, merchant |-> "shop", date |-> "2024-01-01",
   category |-> "Shopping", type |-> "DEBIT", description |-> "d"]
NegativeJson == [GoodJson EXCEPT !.amount = -5]
OffListJson == [GoodJson EXCEPT !.category = "Groceries"]
PartialJson ==
  [amount |-> 5, date |-> "2024-01-01",
   category |-> "Shopping", type |-> "DEBIT", description |-> "d"]

\* outcomes of ai.models.generateContent as parseEmailContent sees them:
\*   threw     - the call rejects (network or provider error)
\*   empty     - response.text is undefined, empty or blank
\*   malformed - response.text is not JSON
\*   json      - response.text is the JSON text of obj
\* rnd is the id Math.random().toString(36).substr(2, 9) yields.
ThrowResp == [kind |-> "threw"]
EmptyResp == [kind |-> "empty"]
MalformedResp == [kind |-> "malformed"]
JsonResp(obj, rnd) == [kind |-> "json", obj |-> obj, rnd |-> rnd]

FailureResponses == {ThrowResp, EmptyResp, MalformedResp}
\* the responses the orchestration specification draws from
SyncResponses == FailureResponses \cup {JsonResp(GoodJson, "id1")}
\* the responses the extraction specification draws from
AllResponses ==
  FailureResponses \cup
  {JsonResp(o, "id1") : o \in {GoodJson, NegativeJson, OffListJson, PartialJson}}

(* --------------------------- pure functions ---------------------------- *)
RECURSIVE SubSeqs(_)
\* the sub-sequences of s (order kept)
SubSeqs(s) ==
  IF s = <<>> THEN {<<>>}
  ELSE LET rest == SubSeqs(Tail(s))
       IN rest \cup {<<Head(s)>> \o t : t \in rest}

\* the mailbox in provider order
Mailbox == [i \in 1..MaxMsgs |-> i]
\* what fetchMessages can return: the listed messages, minus those whose
\* detail fetch failed, in listing order
Listings == SubSeqs(Mailbox)

Includes(s, x) == \E i \in 1..Len(s) : s[i] = x

\* mutant: the filter keeps every listed message
FilterKeepsAll(msgs, ids) == msgs

\* messages.filter(m => !syncedIds.includes(m.id))   (App.tsx 509)
FilterNotIn(msgs, ids) ==
  LET keep(m) == ~Includes(ids, m) IN SelectSeq(msgs, keep)

\* mutant: Math.floor in place of Math.round
FloorPercent(k, n) == (100 * k) \div n

\* Math.round(((i + 1) / n) * 100), k = i + 1
RoundPercent(k, n) == (200 * k + n) \div (2 * n)

\* { ...parsed, id }
Stamp(obj, id) ==
  [k \in DOMAIN obj \cup {"id"} |-> IF k = "id" THEN id ELSE obj[k]]

\* what parseEmailContent resolves to: null, or a Transaction object
NullResult == [ok |-> FALSE]
Parsed(tx) == [ok |-> TRUE, tx |-> tx]

\* parseEmailContent (geminiService.ts 38-64)
parseEmailContent(resp) ==
  IF resp.kind = "threw" THEN NullResult            \* catch: return null
  ELSE IF resp.kind = "empty" THEN NullResult       \* if (!jsonStr) return null
  ELSE IF resp.kind = "malformed" THEN NullResult   \* JSON.parse throws
  ELSE Parsed(Stamp(resp.obj, resp.rnd))

\* ledger entry: the transaction plus (history only) the message it came
\* from, 0 for a manual paste
Entry(tx, src) == [tx |-> tx, src |-> src]

\* if (parsed) results.push(parsed)             (App.tsx 525-526)
PushResult(results, parsed, msg) ==
  IF parsed.ok THEN Append(results, Entry(parsed.tx, msg)) ELSE results

\* mutant: the id is pushed whether or not the extraction succeeded
PushIdAlways(successfulIds, parsed, msg) == Append(successfulIds, msg)

\* if (parsed) successfulIds.push(msg.id)        (App.tsx 525-527)
PushId(successfulIds, parsed, msg) ==
  IF parsed.ok THEN Append(successfulIds, msg) ELSE successfulIds

\* localStorage values: absent key, JSON text of a value, or text that
\* JSON.parse rejects
Absent == [kind |-> "absent"]
Corrupt == [kind |-> "corrupt"]
JsonStringify(v) == [kind |-> "json", val |-> v]
JsonParse(b) == b.val

(* ------------------- GmailService.safeDecode --------------------------- *)
\* Strings are sequences of character codes; a text is a sequence of Unicode
\* code points, its UTF-8 bytes and the base64 characters are numbers too.
Bom == 65279
Replacement == 65533
\* code points a mail body is made of here: A > ? (one byte each, the last
\* two encode to - and _ in third position), e-acute (two bytes), the rupee
\* sign and U+FEFF (three bytes), an emoji (four bytes)
CodePoints == {65, 62, 63, 233, 8377, Bom, 128512}

RECURSIVE Flatten(_)
Flatten(ss) == IF ss = <<>> THEN <<>> ELSE Head(ss) \o Flatten(Tail(ss))

\* the texts of at most n code points
TextsUpTo(n) == UNION {[1..k -> CodePoints] : k \in 0..n}

\* the provider's side: the UTF-8 bytes of a code point, of a text
Utf8(cp) ==
  IF cp < 128 THEN <<cp>>
  ELSE IF cp < 2048 THEN <<192 + cp \div 64, 128 + (cp % 64)>>
  ELSE IF cp < 65536
       THEN <<224 + cp \div 4096, 128 + ((cp \div 64) % 64), 128 + (cp % 64)>>
  ELSE <<240 + cp \div 262144, 128 + ((cp \div 4096) % 64),
         128 + ((cp \div 64) % 64), 128 + (cp % 64)>>
Utf8Encode(text) == Flatten([k \in 1..Len(text) |-> Utf8(text[k])])

\* the provider's side: six-bit groups of a byte string, no padding
RECURSIVE ToSextets(_)
ToSextets(b) ==
  IF Len(b) = 0 THEN <<>>
  ELSE IF Len(b) = 1 THEN <<b[1] \div 4, (b[1] % 4) * 16>>
  ELSE IF Len(b) = 2
       THEN <<b[1] \div 4, (b[1] % 4) * 16 + b[2] \div 16, (b[2] % 16) * 4>>
  ELSE <<b[1] \div 4, (b[1] % 4) * 16 + b[2] \div 16,
         (b[2] % 16) * 4 + b[3] \div 64, b[3] % 64>>
       \o ToSextets(SubSeq(b, 4, Len(b)))

\* the character of a six-bit value: A-Z a-z 0-9, then + / in the standard
\* alphabet and - _ in the URL-safe one
AlphaChar(v, c62, c63) ==
  IF v < 26 THEN 65 + v
  ELSE IF v < 52 THEN 97 + (v - 26)
  ELSE IF v < 62 THEN 48 + (v - 52)
  ELSE IF v = 62 THEN c62 ELSE c63
Minus == 45
Underscore == 95
Plus == 43
Slash == 47
\* payload.body.data as the provider sends it: unpadded URL-safe base64
Base64UrlEncode(b) ==
  LET sx == ToSextets(b) IN [k \in 1..Len(sx) |-> AlphaChar(sx[k], Minus, Underscore)]

\* str.replace(/-/g, '+').replace(/_/g, '/')
ReplaceUrlChars(str) ==
  [k \in 1..Len(str) |->
     IF str[k] = Minus THEN Plus ELSE IF str[k] = Underscore THEN Slash
     ELSE str[k]]

\* the six-bit value of a character of the standard alphabet, -1 if none
Base64Value(c) ==
  IF c >= 65 /\ c <= 90 THEN c - 65
  ELSE IF c >= 97 /\ c <= 122 THEN c - 97 + 26
  ELSE IF c >= 48 /\ c <= 57 THEN c - 48 + 52
  ELSE IF c = Plus THEN 62
  ELSE IF c = Slash THEN 63
  ELSE -1

RECURSIVE FromSextets(_)
FromSextets(sx) ==
  IF Len(sx) < 2 THEN <<>>
  ELSE IF Len(sx) = 2 THEN <<sx[1] * 4 + sx[2] \div 16>>
  ELSE IF Len(sx) = 3
       THEN <<sx[1] * 4 + sx[2] \div 16, (sx[2] % 16) * 16 + sx[3] \div 4>>
  ELSE <<sx[1] * 4 + sx[2] \div 16, (sx[2] % 16) * 16 + sx[3] \div 4,
         (sx[3] % 4) * 64 + sx[4]>>
       \o FromSextets(SubSeq(sx, 5, Len(sx)))

AsciiWhitespace == {9, 10, 12, 13, 32}
Equals == 61
\* window.atob (forgiving-base64 decode): white space is dropped, one or two
\* = are dropped from the end of a length that is a multiple of four, a
\* length of 4k + 1 or a character outside the alphabet throws; missing
\* padding does not
atob(data) ==
  LET NotSpace(c) == c \notin AsciiWhitespace
      d1 == SelectSeq(data, NotSpace)
      n1 == Len(d1)
      pad == IF n1 % 4 = 0 /\ n1 > 0 /\ d1[n1] = Equals
             THEN IF d1[n1 - 1] = Equals THEN 2 ELSE 1
             ELSE 0
      d2 == SubSeq(d1, 1, n1 - pad)
  IN IF Len(d2) % 4 = 1 \/ \E k \in 1..Len(d2) : Base64Value(d2[k]) = -1
     THEN [ok |-> FALSE]
     ELSE [ok |-> TRUE,
           bytes |-> FromSextets([k \in 1..Len(d2) |-> Base64Value(d2[k])])]

\* the UTF-8 decoder of TextDecoder: how many continuation bytes a lead
\* byte asks for (-1: not a lead byte), and the range of the j-th of them
Needed(b1) ==
  IF b1 >= 194 /\ b1 <= 223 THEN 1
  ELSE IF b1 >= 224 /\ b1 <= 239 THEN 2
  ELSE IF b1 >= 240 /\ b1 <= 244 THEN 3
  ELSE -1
Lower(b1, j) ==
  IF j = 1 /\ b1 = 224 THEN 160 ELSE IF j = 1 /\ b1 = 240 THEN 144 ELSE 128
Upper(b1, j) ==
  IF j = 1 /\ b1 = 237 THEN 159 ELSE IF j = 1 /\ b1 = 244 THEN 143 ELSE 191

\* a malformed sequence gives one U+FFFD and decoding goes on at the byte
\* that broke it
RECURSIVE Utf8Decode(_)
Utf8Decode(b) ==
  IF b = <<>> THEN <<>>
  ELSE LET b1 == b[1]
           n == Needed(b1)
           Good(j) == 1 + j <= Len(b) /\ b[1 + j] >= Lower(b1, j)
                      /\ b[1 + j] <= Upper(b1, j)
           k == Cardinality({m \in 1..n : \A j \in 1..m : Good(j)})
           lead == IF n = 1 THEN b1 - 192 ELSE IF n = 2 THEN b1 - 224
                   ELSE b1 - 240
           Value[j \in 0..3] ==
             IF j = 0 THEN lead ELSE Value[j - 1] * 64 + (b[1 + j] - 128)
       IN IF b1 < 128 THEN <<b1>> \o Utf8Decode(Tail(b))
          ELSE IF n = -1 THEN <<Replacement>> \o Utf8Decode(Tail(b))
          ELSE IF k = n
               THEN <<Value[n]>> \o Utf8Decode(SubSeq(b, n + 2, Len(b)))
          ELSE <<Replacement>> \o Utf8Decode(SubSeq(b, k + 2, Len(b)))

\* mutant: the bytes are taken as characters one by one, as the atob-only
\* decoding of the older client does
BytesAsChars(bytes) == bytes

\* new TextDecoder().decode(bytes): UTF-8, not fatal, and with the default
\* ignoreBOM = false a byte order mark at the start is left out of the result
TextDecoderDecode(bytes) ==
  LET text == Utf8Decode(bytes)
  IN IF text # <<>> /\ text[1] = Bom THEN Tail(text) ELSE text

\* safeDecode (gmailService.ts 58-72): the raw string comes back when atob
\* throws
safeDecode(str) ==
  LET bin == atob(ReplaceUrlChars(str))
  IN IF bin.ok THEN TextDecoderDecode(bin.bytes) ELSE str

(* ------------------ GmailService.fetchMessages ------------------------- *)
\* a node of detailData.payload: body.data (empty when there is none) and
\* its parts
Part(data, parts) == [data |-> data, parts |-> parts]
NoData == <<>>
\* "A", "AA" as the provider encodes them; a string atob rejects
DataA == Base64UrlEncode(Utf8Encode(<<65>>))
DataAA == Base64UrlEncode(Utf8Encode(<<65, 65>>))
DataBad == <<42>>
\* a body that is a byte order mark and nothing else: it decodes to ""
DataBom == Base64UrlEncode(Utf8Encode(<<Bom>>))
PlainPayload == Part(DataA, <<>>)
MultipartPayload ==
  Part(NoData, <<Part(NoData, <<Part(NoData, <<>>), Part(DataAA, <<>>)>>),
                 Part(DataA, <<>>)>>)
EmptyPayload == Part(NoData, <<>>)
BadPayload == Part(DataBad, <<>>)
BomOnlyPayload == Part(DataBom, <<>>)
BomFirstPayload == Part(NoData, <<Part(DataBom, <<>>), Part(DataAA, <<>>)>>)
Payloads ==
  {PlainPayload, MultipartPayload, EmptyPayload, BadPayload, BomOnlyPayload,
   BomFirstPayload}

\* detailData.snippet of message id: "S" and a digit
Snippet(id) == <<83, 48 + id>>

\* what the detail request of one message can come to: fetch rejects, the
\* answer is not JSON, the answer is JSON without a payload (an error
\* body), or a message
DetailFailures == {"networkError", "notJson", "noPayload"}
DetailResponses ==
  [kind : DetailFailures] \cup [kind : {"message"}, payload : Payloads]

\* mutant: only the node and its direct parts are looked at, as the older
\* client does
extractBodyShallow(payload) ==
  IF payload.data # NoData THEN safeDecode(payload.data)
  ELSE LET found == {k \in 1..Len(payload.parts) :
                       payload.parts[k].data # NoData}
       IN IF found = {} THEN <<>>
          ELSE safeDecode(
                 payload.parts[CHOOSE k \in found : \A j \in found : k <= j].data)

\* extractBody (100-109): body.data of the node if it has any, else the
\* first non-empty result among its parts, else ""
RECURSIVE extractBody(_)
extractBody(payload) ==
  IF payload.data # NoData THEN safeDecode(payload.data)
  ELSE LET b == [k \in 1..Len(payload.parts) |-> extractBody(payload.parts[k])]
           found == {k \in 1..Len(b) : b[k] # <<>>}
       IN IF found = {} THEN <<>>
          ELSE b[CHOOSE k \in found : \A j \in found : k <= j]

\* the text handleGmailSync gives to parseEmailContent (App.tsx 524)
ExtractionInput(msg) == IF msg.body # <<>> THEN msg.body ELSE msg.snippet

\* the object returned for one message (111-112)
GmailMessage(id, payload) ==
  LET foundBody == extractBody(payload)
  IN [id |-> id, snippet |-> Snippet(id),
      body |-> IF foundBody # <<>> THEN foundBody ELSE Snippet(id)]

Pending == [st |-> "pending"]
NullMessage == [st |-> "null"]
Fetched(msg) == [st |-> "ok", msg |-> msg]

\* mutant: a failure of one detail request rejects the whole call, as in the
\* older client that has no try/catch inside the map
DetailFailureRejects(m, k) == [m EXCEPT !.pc = "rejected", !.why = "detail"]

\* the catch inside the map (113-116): this message becomes null
DetailFailed(m, k) == [m EXCEPT !.detail[k] = NullMessage]

\* messages.filter(m => m !== null) (120), in the order of the listing
NonNull(detail) ==
  LET idx == SelectSeq([k \in 1..Len(detail) |-> k],
                       LAMBDA k : detail[k].st = "ok")
  IN [j \in 1..Len(idx) |-> detail[idx[j]].msg]

(* ------------------------------ state ---------------------------------- *)
VARIABLES
  phase,          \* "boot" | "mounted" | "ready": mount effects of App
  storedTrans,    \* localStorage 'hdfc_transactions'
  storedIds,      \* localStorage 'hdfc_synced_ids'
  transactions,   \* useState<Transaction[]>
  syncedIds,      \* useState<string[]>
  isParsing,      \* useState(false)
  manualPc,       \* "idle" | "awaiting": handleManualParse at its await
  nManual,        \* handleManualParse calls so far
  manualKind,     \* history: how the model answered the last manual paste
  client,         \* GmailService.client is set
  accessToken,    \* GmailService.accessToken
  awaitingToken,  \* requestAccessToken issued, callback not yet delivered
  gmailToken,     \* useState<string | null>
  appError,       \* useState<string | null>, TRUE when a message is set
  isSyncing,      \* useState(false)
  syncProgress,   \* useState(0)
  lastAlert,      \* text of the last alert() shown
  nSync,          \* handleGmailSync runs that passed the token check
  run,            \* per run: the locals of handleGmailSync and its history
  mail,           \* one call of GmailService.fetchMessages, step by step
  codec           \* one call of GmailService.safeDecode

vars == <<phase, storedTrans, storedIds, transactions, syncedIds, isParsing,
          manualPc, nManual, manualKind, client, accessToken, awaitingToken, gmailToken,
          appError, isSyncing, syncProgress, lastAlert, nSync, run,
          mail, codec>>

storageVars == <<storedTrans, storedIds>>
ledgerVars == <<transactions, syncedIds>>
manualVars == <<isParsing, manualPc, nManual, manualKind>>
authVars == <<client, accessToken, awaitingToken, gmailToken, appError>>
\* the mailbox client looked at on its own (SpecMailbox, SpecCodec); the
\* handlers of App see fetchMessages as one await (Listing)
serviceVars == <<mail, codec>>
\* every variable of App
appVars == <<phase, storageVars, ledgerVars, manualVars, authVars, isSyncing,
             syncProgress, lastAlert, nSync, run>>

IdleMail == [pc |-> "idle"]
IdleCodec == [pc |-> "idle"]

IdleRun ==
  [pc |-> "idle", closureIds |-> <<>>, messages |-> <<>>, newMessages |-> <<>>,
   i |-> 0, results |-> <<>>, successfulIds |-> <<>>,
   outcome |-> "none", progress |-> <<>>, attempts |-> <<>>, failed |-> {},
   entryTrans |-> <<>>, entryIds |-> <<>>, overlapped |-> FALSE,
   withManual |-> FALSE]

InFlight(r) == run[r].pc \in {"listing", "extracting"}
RunsInFlight == {r \in RunIds : InFlight(r)}

\* a ledger that an earlier session can have left in storage
SavedTrans == <<Entry(Stamp(GoodJson, "id2"), 2)>>
SavedIds == <<2>>

InitApp(t, s) ==
  /\ phase = "boot"
  /\ storedTrans = t
  /\ storedIds = s
  /\ transactions = <<>>
  /\ syncedIds = <<>>
  /\ isParsing = FALSE
  /\ manualPc = "idle"
  /\ nManual = 0
  /\ manualKind = "none"
  /\ client = FALSE
  /\ accessToken = Null
  /\ awaitingToken = FALSE
  /\ gmailToken = Null
  /\ appError = FALSE
  /\ isSyncing = FALSE
  /\ syncProgress = 0
  /\ lastAlert = "none"
  /\ nSync = 0
  /\ run = [r \in RunIds |-> IdleRun]

InitWith(t, s) ==
  /\ InitApp(t, s)
  /\ mail = IdleMail
  /\ codec = IdleCodec

Init ==
  \/ InitWith(Absent, Absent)
  \/ InitWith(JsonStringify(SavedTrans), JsonStringify(SavedIds))

(* ---------------------------- persistence ------------------------------ *)
\* mutant: only the transaction list is written
PersistTransactionsOnly(t, s) ==
  /\ storedTrans' = JsonStringify(t)
  /\ UNCHANGED storedIds

\* the effect of App.tsx 421-424, run after a render in which transactions
\* or syncedIds changed
Persist(t, s) ==
  /\ storedTrans' = JsonStringify(t)
  /\ storedIds' = JsonStringify(s)

\* the load effect (410-419) and, in the same commit, the persistence effect
\* of the first render, whose closure holds the initial empty arrays
Mount ==
  /\ phase = "boot"
  /\ phase' = "mounted"
  /\ LET transOk == storedTrans.kind # "corrupt"
         idsOk == storedIds.kind # "corrupt"
     IN /\ transactions' =
             IF storedTrans.kind = "json" THEN JsonParse(storedTrans) ELSE <<>>
        /\ syncedIds' =
             IF transOk /\ storedIds.kind = "json" THEN JsonParse(storedIds)
             ELSE <<>>
  /\ Persist(<<>>, <<>>)
  /\ UNCHANGED <<manualVars, authVars, isSyncing, syncProgress, lastAlert,
                 nSync, run>>
  /\ UNCHANGED serviceVars

\* the render the load effect's setState calls schedule, and its
\* persistence effect
Rerender ==
  /\ phase = "mounted"
  /\ phase' = "ready"
  /\ Persist(transactions, syncedIds)
  /\ UNCHANGED <<ledgerVars, manualVars, authVars, isSyncing, syncProgress,
                 lastAlert, nSync, run>>
  /\ UNCHANGED serviceVars

(* --------------------------- authentication ---------------------------- *)
\* the interval of App.tsx 427-452 finds the SDK loaded: GmailService.init
GsiInit ==
  /\ phase = "ready"
  /\ ~client
  /\ client' = TRUE
  /\ UNCHANGED <<phase, storageVars, ledgerVars, manualVars, accessToken,
                 awaitingToken, gmailToken, appError, isSyncing, syncProgress,
                 lastAlert, nSync, run>>
  /\ UNCHANGED serviceVars

\* the callback given to initTokenClient (gmailService.ts 27-37) with the
\* App's onTokenReceived / onError (App.tsx 433-442)
TokenCallback(ok) ==
  /\ awaitingToken
  /\ awaitingToken' = FALSE
  /\ IF ok
     THEN /\ accessToken' = Token
          /\ gmailToken' = Token
          /\ appError' = FALSE
     ELSE /\ appError' = TRUE
          /\ UNCHANGED <<accessToken, gmailToken>>
  /\ UNCHANGED <<phase, storageVars, ledgerVars, manualVars, client,
                 isSyncing, syncProgress, lastAlert, nSync, run>>
  /\ UNCHANGED serviceVars

(* -------------------------- handleGmailSync ---------------------------- *)
\* mutant: the syncing flag is raised before the token is looked at
SyncNoTokenSetsFlag ==
  /\ phase = "ready"
  /\ gmailToken = Null
  /\ client
  /\ ~awaitingToken
  /\ awaitingToken' = TRUE
  /\ isSyncing' = TRUE
  /\ UNCHANGED <<phase, storageVars, ledgerVars, manualVars, client,
                 accessToken, gmailToken, appError, syncProgress,
                 lastAlert, nSync, run>>
  /\ UNCHANGED serviceVars

\* handleGmailSync with no token in its closure (App.tsx 500-503):
\* gmailService.requestToken() and return
SyncNoToken ==
  /\ phase = "ready"
  /\ gmailToken = Null
  /\ client
  /\ ~awaitingToken
  /\ awaitingToken' = TRUE
  /\ UNCHANGED <<phase, storageVars, ledgerVars, manualVars, client,
                 accessToken, gmailToken, appError, isSyncing, syncProgress,
                 lastAlert, nSync, run>>
  /\ UNCHANGED serviceVars

\* handleGmailSync with a token, up to the await of fetchMessages
\* (App.tsx 499-508).  Nothing in the handler or on the button looks at
\* isSyncing.  The callback closes over the syncedIds of the current render.
SyncClick ==
  /\ phase = "ready"
  /\ gmailToken # Null
  /\ nSync < MaxSyncs
  /\ nSync' = nSync + 1
  /\ isSyncing' = TRUE
  /\ syncProgress' = 0
  /\ run' = [r \in RunIds |->
              IF r = nSync + 1
              THEN [IdleRun EXCEPT !.pc = "listing",
                                   !.closureIds = syncedIds,
                                   !.progress = <<0>>,
                                   !.entryTrans = transactions,
                                   !.entryIds = syncedIds,
                                   !.overlapped = (RunsInFlight # {})]
              ELSE IF InFlight(r) THEN [run[r] EXCEPT !.overlapped = TRUE]
              ELSE run[r]]
  /\ UNCHANGED <<phase, storageVars, ledgerVars, manualVars, authVars,
                 lastAlert>>
  /\ UNCHANGED serviceVars

\* why fetchMessages can reject (gmailService.ts 75-87)
ListFailures == {"auth", "provider", "network"}

\* mutant: the catch block resets the ledger
ListFailResets(r, why) ==
  /\ run[r].pc = "listing"
  /\ run' = [run EXCEPT ![r].pc = "done",
                        ![r].outcome =
                          IF accessToken = Null THEN "notAuthenticated" ELSE why]
  /\ lastAlert' = "syncFailed"
  /\ gmailToken' = Null
  /\ isSyncing' = FALSE
  /\ transactions' = <<>>
  /\ syncedIds' = <<>>
  /\ Persist(<<>>, <<>>)
  /\ UNCHANGED <<phase, manualVars, client, accessToken, awaitingToken,
                 appError, syncProgress, nSync>>
  /\ UNCHANGED serviceVars

\* mutant: the catch block only alerts, as in the App variant at 936-940
ListFailKeepsToken(r, why) ==
  /\ run[r].pc = "listing"
  /\ run' = [run EXCEPT ![r].pc = "done",
                        ![r].outcome =
                          IF accessToken = Null THEN "notAuthenticated" ELSE why]
  /\ lastAlert' = "syncFailed"
  /\ isSyncing' = FALSE
  /\ UNCHANGED <<phase, storageVars, ledgerVars, manualVars, authVars,
                 syncProgress, nSync>>
  /\ UNCHANGED serviceVars

\* mutant: the flag is cleared on the success path only
ListFailLeavesFlag(r, why) ==
  /\ run[r].pc = "listing"
  /\ run' = [run EXCEPT ![r].pc = "done",
                        ![r].outcome =
                          IF accessToken = Null THEN "notAuthenticated" ELSE why]
  /\ lastAlert' = "syncFailed"
  /\ gmailToken' = Null
  /\ UNCHANGED <<phase, storageVars, ledgerVars, manualVars, client,
                 accessToken, awaitingToken, appError, isSyncing,
                 syncProgress, nSync>>
  /\ UNCHANGED serviceVars

\* fetchMessages rejects: catch and finally of handleGmailSync (538-544)
ListFail(r, why) ==
  /\ run[r].pc = "listing"
  /\ run' = [run EXCEPT ![r].pc = "done",
                        ![r].outcome =
                          IF accessToken = Null THEN "notAuthenticated" ELSE why]
  /\ lastAlert' = "syncFailed"
  /\ gmailToken' = Null
  /\ isSyncing' = FALSE
  /\ UNCHANGED <<phase, storageVars, ledgerVars, manualVars, client,
                 accessToken, awaitingToken, appError, syncProgress, nSync>>
  /\ UNCHANGED serviceVars

\* mutant: the empty case goes through the catch block
ListOkEmptyFails(r, msgs) ==
  /\ run[r].pc = "listing"
  /\ accessToken # Null
  /\ LET newMessages == FilterNotIn(msgs, run[r].closureIds)
         n == Len(newMessages)
     IN IF n = 0
        THEN /\ run' = [run EXCEPT ![r].pc = "done",
                                   ![r].messages = msgs,
                                   ![r].outcome = "nothingNew"]
             /\ lastAlert' = "syncFailed"
             /\ gmailToken' = Null
             /\ isSyncing' = FALSE
             /\ UNCHANGED syncProgress
        ELSE /\ run' = [run EXCEPT ![r].pc = "extracting",
                                   ![r].messages = msgs,
                                   ![r].newMessages = newMessages,
                                   ![r].i = 0,
                                   ![r].progress =
                                     Append(@, RoundPercent(1, n)),
                                   ![r].attempts = <<newMessages[1]>>]
             /\ syncProgress' = RoundPercent(1, n)
             /\ UNCHANGED <<lastAlert, isSyncing, gmailToken>>
  /\ UNCHANGED <<phase, storageVars, ledgerVars, manualVars, client,
                 accessToken, awaitingToken, appError, nSync>>
  /\ UNCHANGED serviceVars

\* mutant: every extraction call is issued as soon as the listing is back
ListOkIssuesAll(r, msgs) ==
  /\ run[r].pc = "listing"
  /\ accessToken # Null
  /\ LET newMessages == FilterNotIn(msgs, run[r].closureIds)
         n == Len(newMessages)
     IN IF n = 0
        THEN /\ run' = [run EXCEPT ![r].pc = "done",
                                   ![r].messages = msgs,
                                   ![r].outcome = "nothingNew"]
             /\ lastAlert' = "nothingNew"
             /\ isSyncing' = FALSE
             /\ UNCHANGED syncProgress
        ELSE /\ run' = [run EXCEPT ![r].pc = "extracting",
                                   ![r].messages = msgs,
                                   ![r].newMessages = newMessages,
                                   ![r].i = 0,
                                   ![r].progress =
                                     Append(@, RoundPercent(1, n)),
                                   ![r].attempts = newMessages]
             /\ syncProgress' = RoundPercent(1, n)
             /\ UNCHANGED <<lastAlert, isSyncing>>
  /\ UNCHANGED <<phase, storageVars, ledgerVars, manualVars, authVars, nSync>>
  /\ UNCHANGED serviceVars

\* fetchMessages resolves with msgs: filter, empty check, and the first
\* iteration of the loop up to its await (508-524)
ListOk(r, msgs) ==
  /\ run[r].pc = "listing"
  /\ accessToken # Null
  /\ LET newMessages == FilterNotIn(msgs, run[r].closureIds)
         n == Len(newMessages)
     IN IF n = 0
        THEN /\ run' = [run EXCEPT ![r].pc = "done",
                                   ![r].messages = msgs,
                                   ![r].outcome = "nothingNew"]
             /\ lastAlert' = "nothingNew"
             /\ isSyncing' = FALSE
             /\ UNCHANGED syncProgress
        ELSE /\ run' = [run EXCEPT ![r].pc = "extracting",
                                   ![r].messages = msgs,
                                   ![r].newMessages = newMessages,
                                   ![r].i = 0,
                                   ![r].progress =
                                     Append(@, RoundPercent(1, n)),
                                   ![r].attempts = <<newMessages[1]>>]
             /\ syncProgress' = RoundPercent(1, n)
             /\ UNCHANGED <<lastAlert, isSyncing>>
  /\ UNCHANGED <<phase, storageVars, ledgerVars, manualVars, authVars, nSync>>
  /\ UNCHANGED serviceVars

\* mutant: a failed extraction ends the loop
LoopStopsAtFailure(i, n, parsed) == i < n /\ parsed.ok

\* the for loop goes round again while i < newMessages.length, whatever the
\* extraction gave: a null result skips the if (525), a throw is caught
\* inside the iteration (529-531)
LoopGoesOn(i, n, parsed) == i < n

\* mutant: the accumulated items are put after the earlier ones
PutAfter(new, prev) == prev \o new

\* the functional updates [...results, ...prev], [...successfulIds, ...prev]
MergeFront(new, prev) == new \o prev

\* mutant: the merge writes over the arrays the handler was created with
ExtractReturnStale(r, resp) ==
  /\ run[r].pc = "extracting"
  /\ LET me == run[r]
         n == Len(me.newMessages)
         msg == me.newMessages[me.i + 1]
         parsed == parseEmailContent(resp)
         results == PushResult(me.results, parsed, msg)
         successfulIds == PushId(me.successfulIds, parsed, msg)
         failed == IF parsed.ok THEN me.failed ELSE me.failed \cup {msg}
         i == me.i + 1
     IN IF LoopGoesOn(i, n, parsed)
        THEN /\ run' = [run EXCEPT ![r].i = i,
                                   ![r].results = results,
                                   ![r].successfulIds = successfulIds,
                                   ![r].failed = failed,
                                   ![r].withManual =
                                     @ \/ manualPc = "awaiting",
                                   ![r].progress =
                                     Append(@, RoundPercent(i + 1, n)),
                                   ![r].attempts =
                                     Append(@, me.newMessages[i + 1])]
             /\ syncProgress' = RoundPercent(i + 1, n)
             /\ UNCHANGED <<ledgerVars, storageVars, isSyncing>>
        ELSE /\ run' = [run EXCEPT ![r].pc = "done",
                                   ![r].i = i,
                                   ![r].results = results,
                                   ![r].successfulIds = successfulIds,
                                   ![r].failed = failed,
                                   ![r].withManual =
                                     @ \/ manualPc = "awaiting",
                                   ![r].outcome =
                                     IF Len(results) > 0 THEN "merged"
                                     ELSE "noResults"]
             /\ IF Len(results) > 0
                THEN /\ transactions' = MergeFront(results, me.entryTrans)
                     /\ syncedIds' = MergeFront(successfulIds, me.entryIds)
                     /\ Persist(MergeFront(results, me.entryTrans),
                                MergeFront(successfulIds, me.entryIds))
                ELSE UNCHANGED <<ledgerVars, storageVars>>
             /\ isSyncing' = FALSE
             /\ UNCHANGED syncProgress
  /\ UNCHANGED <<phase, manualVars, authVars, lastAlert, nSync>>
  /\ UNCHANGED serviceVars

\* parseEmailContent resolves for newMessages[i]: rest of the iteration,
\* then either the next iteration up to its await, or the merge and the
\* finally block (524-544)
ExtractReturn(r, resp) ==
  /\ run[r].pc = "extracting"
  /\ LET me == run[r]
         n == Len(me.newMessages)
         msg == me.newMessages[me.i + 1]
         parsed == parseEmailContent(resp)
         results == PushResult(me.results, parsed, msg)
         successfulIds == PushId(me.successfulIds, parsed, msg)
         failed == IF parsed.ok THEN me.failed ELSE me.failed \cup {msg}
         i == me.i + 1
     IN IF LoopGoesOn(i, n, parsed)
        THEN /\ run' = [run EXCEPT ![r].i = i,
                                   ![r].results = results,
                                   ![r].successfulIds = successfulIds,
                                   ![r].failed = failed,
                                   ![r].withManual =
                                     @ \/ manualPc = "awaiting",
                                   ![r].progress =
                                     Append(@, RoundPercent(i + 1, n)),
                                   ![r].attempts =
                                     Append(@, me.newMessages[i + 1])]
             /\ syncProgress' = RoundPercent(i + 1, n)
             /\ UNCHANGED <<ledgerVars, storageVars, isSyncing>>
        ELSE /\ run' = [run EXCEPT ![r].pc = "done",
                                   ![r].i = i,
                                   ![r].results = results,
                                   ![r].successfulIds = successfulIds,
                                   ![r].failed = failed,
                                   ![r].withManual =
                                     @ \/ manualPc = "awaiting",
                                   ![r].outcome =
                                     IF Len(results) > 0 THEN "merged"
                                     ELSE "noResults"]
             /\ IF Len(results) > 0
                THEN /\ transactions' = MergeFront(results, transactions)
                     /\ syncedIds' = MergeFront(successfulIds, syncedIds)
                     /\ Persist(MergeFront(results, transactions),
                                MergeFront(successfulIds, syncedIds))
                ELSE UNCHANGED <<ledgerVars, storageVars>>
             /\ isSyncing' = FALSE
             /\ UNCHANGED syncProgress
  /\ UNCHANGED <<phase, manualVars, authVars, lastAlert, nSync>>
  /\ UNCHANGED serviceVars

(* ------------------------- handleManualParse --------------------------- *)
\* history: the runs that were suspended at an extraction when a manual
\* paste's extraction came back
MarkManual ==
  [r \in RunIds |-> IF run[r].pc = "extracting"
                    THEN [run[r] EXCEPT !.withManual = TRUE] ELSE run[r]]

\* handleManualParse up to its await (480-484); its button is disabled
\* while isParsing or while emailInput is empty (App.tsx 800)
ManualClick ==
  /\ phase = "ready"
  /\ ~isParsing
  /\ manualPc = "idle"
  /\ nManual < MaxManual
  /\ nManual' = nManual + 1
  /\ isParsing' = TRUE
  /\ manualPc' = "awaiting"
  /\ UNCHANGED manualKind
  /\ UNCHANGED <<phase, storageVars, ledgerVars, authVars, isSyncing,
                 syncProgress, lastAlert, nSync, run>>
  /\ UNCHANGED serviceVars

\* mutant: a failed extraction is dropped without a word
ManualReturnSilent(resp) ==
  /\ manualPc = "awaiting"
  /\ manualPc' = "idle"
  /\ manualKind' = resp.kind
  /\ LET newTransaction == parseEmailContent(resp)
     IN IF newTransaction.ok
        THEN /\ transactions' = <<Entry(newTransaction.tx, 0)>> \o transactions
             /\ Persist(<<Entry(newTransaction.tx, 0)>> \o transactions,
                        syncedIds)
             /\ UNCHANGED syncedIds
        ELSE UNCHANGED <<ledgerVars, storageVars>>
  /\ isParsing' = FALSE
  /\ run' = MarkManual
  /\ UNCHANGED <<phase, nManual, authVars, isSyncing, syncProgress, lastAlert,
                 nSync>>
  /\ UNCHANGED serviceVars

\* mutant: the manual paste is given a place among the processed ids
ManualReturnMarksId(resp) ==
  /\ manualPc = "awaiting"
  /\ manualPc' = "idle"
  /\ manualKind' = resp.kind
  /\ LET newTransaction == parseEmailContent(resp)
     IN IF newTransaction.ok
        THEN /\ transactions' = <<Entry(newTransaction.tx, 0)>> \o transactions
             /\ syncedIds' = <<0>> \o syncedIds
             /\ Persist(<<Entry(newTransaction.tx, 0)>> \o transactions,
                        <<0>> \o syncedIds)
             /\ UNCHANGED lastAlert
        ELSE /\ lastAlert' = "manualFailed"
             /\ UNCHANGED <<ledgerVars, storageVars>>
  /\ isParsing' = FALSE
  /\ run' = MarkManual
  /\ UNCHANGED <<phase, nManual, authVars, isSyncing, syncProgress, nSync>>
  /\ UNCHANGED serviceVars

\* parseEmailContent resolves for the pasted text (484-496)
ManualReturn(resp) ==
  /\ manualPc = "awaiting"
  /\ manualPc' = "idle"
  /\ manualKind' = resp.kind
  /\ LET newTransaction == parseEmailContent(resp)
     IN IF newTransaction.ok
        THEN /\ transactions' = <<Entry(newTransaction.tx, 0)>> \o transactions
             /\ Persist(<<Entry(newTransaction.tx, 0)>> \o transactions,
                        syncedIds)
             /\ UNCHANGED <<syncedIds, lastAlert>>
        ELSE /\ lastAlert' = "manualFailed"
             /\ UNCHANGED <<ledgerVars, storageVars>>
  /\ isParsing' = FALSE
  /\ run' = MarkManual
  /\ UNCHANGED <<phase, nManual, authVars, isSyncing, syncProgress, nSync>>
  /\ UNCHANGED serviceVars

(* --------------------------- specifications ---------------------------- *)
Startup == Mount \/ Rerender \/ GsiInit
Auth == \E ok \in BOOLEAN : TokenCallback(ok)
Listing ==
  \E r \in RunIds :
    \/ \E why \in ListFailures : ListFail(r, why)
    \/ \E msgs \in Listings : ListOk(r, msgs)

\* the orchestration: every handler, with conforming model answers
Next ==
  \/ Startup
  \/ Auth
  \/ SyncNoToken
  \/ SyncClick
  \/ Listing
  \/ \E r \in RunIds, resp \in SyncResponses : ExtractReturn(r, resp)
  \/ ManualClick
  \/ \E resp \in SyncResponses : ManualReturn(resp)

Spec == Init /\ [][Next]_vars

\* the awaits of run r: fetchMessages settles, parseEmailContent settles
ListReturn(r) ==
  \/ \E why \in ListFailures : ListFail(r, why)
  \/ \E msgs \in Listings : ListOk(r, msgs)
ExtractSettles(r) == \E resp \in SyncResponses : ExtractReturn(r, resp)

\* every network call that a run awaits comes back or fails in the end; the
\* user and the consent popup are under no obligation
NetworkReturns ==
  \A r \in RunIds : WF_vars(ListReturn(r)) /\ WF_vars(ExtractSettles(r))

SpecLive == Spec /\ NetworkReturns

\* the handlers called one at a time, with every kind of model answer
NextExtract ==
  \/ Startup
  \/ Auth
  \/ SyncNoToken
  \/ RunsInFlight = {} /\ manualPc = "idle" /\ SyncClick
  \/ Listing
  \/ \E r \in RunIds, resp \in AllResponses : ExtractReturn(r, resp)
  \/ RunsInFlight = {} /\ ManualClick
  \/ \E resp \in AllResponses : ManualReturn(resp)

SpecExtract == Init /\ [][NextExtract]_vars

\* what Math.random().toString(36).substr(2, 9) can give: nothing in
\* parseEmailContent looks at the ids already handed out, so any value can
\* come again
TxIds == {"id1", "id2", "id3"}
StampResponses == {ThrowResp} \cup {JsonResp(GoodJson, id) : id \in TxIds}

\* the handlers called one at a time, the stamped id being any of TxIds
NextStamp ==
  \/ Startup
  \/ Auth
  \/ SyncNoToken
  \/ RunsInFlight = {} /\ manualPc = "idle" /\ SyncClick
  \/ Listing
  \/ \E r \in RunIds, resp \in StampResponses : ExtractReturn(r, resp)
  \/ RunsInFlight = {} /\ ManualClick
  \/ \E resp \in StampResponses : ManualReturn(resp)

SpecStamp == Init /\ [][NextStamp]_vars

\* what the two keys of localStorage can hold when the App starts: nothing,
\* text that JSON.parse rejects, or what the App wrote
StoredBlobs(saved) == {Absent, Corrupt, JsonStringify(saved)}
InitLoad ==
  \E t \in StoredBlobs(SavedTrans), s \in StoredBlobs(SavedIds) :
    InitWith(t, s)

\* start-up, authentication and the manual path on any stored blobs
NextLoad ==
  \/ Startup
  \/ Auth
  \/ SyncNoToken
  \/ ManualClick
  \/ \E resp \in SyncResponses : ManualReturn(resp)

SpecLoad == InitLoad /\ [][NextLoad]_vars

(* ----------------------- safeDecode on its own ------------------------- *)
\* the provider holds a text and sends its unpadded URL-safe base64
InitCodec ==
  /\ InitApp(Absent, Absent)
  /\ mail = IdleMail
  /\ \E text \in TextsUpTo(MaxText) :
       codec = [pc |-> "call", text |-> text,
                str |-> Base64UrlEncode(Utf8Encode(text))]

\* one call of safeDecode on payload.body.data
SafeDecode ==
  /\ codec.pc = "call"
  /\ codec' = [pc |-> "returned", text |-> codec.text, str |-> codec.str,
               out |-> safeDecode(codec.str)]
  /\ UNCHANGED <<appVars, mail>>

SpecCodec == InitCodec /\ [][SafeDecode]_vars

(* --------------------- fetchMessages on its own ------------------------ *)
MailCall(pc, why, listed) ==
  [pc |-> pc, why |-> why, listed |-> listed,
   detail |-> [k \in 1..Len(listed) |-> Pending], failed |-> {},
   answers |-> [k \in 1..Len(listed) |-> [kind |-> "none"]],
   out |-> <<>>]

\* fetchMessages is called: it throws without a token (75), else it sends
\* the list request (77-80)
FetchCall ==
  /\ phase = "ready"
  /\ mail.pc = "idle"
  /\ mail' = IF accessToken = Null
             THEN MailCall("rejected", "notAuthenticated", <<>>)
             ELSE MailCall("list", "none", <<>>)
  /\ UNCHANGED <<appVars, codec>>

\* the list request fails or is answered with an error status (77-85)
ListRejected(why) ==
  /\ mail.pc = "list"
  /\ mail' = MailCall("rejected", why, <<>>)
  /\ UNCHANGED <<appVars, codec>>

\* the list answer has no messages field (87-88)
ListEmpty ==
  /\ mail.pc = "list"
  /\ mail' = MailCall("resolved", "none", <<>>)
  /\ UNCHANGED <<appVars, codec>>

\* the list answer names messages: one detail request each, all sent
\* before any answer is looked at (90-96)
ListMessages(ids) ==
  /\ mail.pc = "list"
  /\ ids # <<>>
  /\ mail' = MailCall("details", "none", ids)
  /\ UNCHANGED <<appVars, codec>>

\* the detail request of the k-th listed message comes back (97-117); with
\* the last one Promise.all resolves and the nulls are filtered out (120)
DetailReturn(k, resp) ==
  /\ mail.pc = "details"
  /\ k \in 1..Len(mail.listed)
  /\ mail.detail[k] = Pending
  /\ LET m1 == IF resp.kind \in DetailFailures
               THEN [DetailFailed(mail, k) EXCEPT !.failed = @ \cup {k},
                                                  !.answers[k] = resp]
               ELSE [mail EXCEPT !.detail[k] =
                       Fetched(GmailMessage(mail.listed[k], resp.payload)),
                                 !.answers[k] = resp]
     IN mail' = IF m1.pc = "details"
                   /\ \A j \in 1..Len(m1.listed) : m1.detail[j] # Pending
                THEN [m1 EXCEPT !.pc = "resolved", !.out = NonNull(m1.detail)]
                ELSE m1
  /\ UNCHANGED <<appVars, codec>>

NextMailbox ==
  \/ Startup
  \/ Auth
  \/ SyncNoToken
  \/ FetchCall
  \/ \E why \in ListFailures : ListRejected(why)
  \/ ListEmpty
  \/ \E ids \in Listings : ListMessages(ids)
  \/ \E k \in MsgIds, resp \in DetailResponses : DetailReturn(k, resp)

SpecMailbox == Init /\ [][NextMailbox]_vars

(* ------------------------------ claims --------------------------------- *)
Range(s) == {s[i] : i \in 1..Len(s)}
Count(x, s) == Cardinality({i \in 1..Len(s) : s[i] = x})
IsPrefix(s, t) == Len(s) <= Len(t) /\ s = SubSeq(t, 1, Len(s))
Done(r) == run[r].pc = "done"
\* run r got a listing from fetchMessages
Listed(r) == run[r].pc = "extracting" \/ run[r].outcome \in {"nothingNew", "merged", "noResults"}
ListFailed(r) == run[r].outcome \in ListFailures \cup {"notAuthenticated"}
\* run r + 1 was called after run r had returned, and was alone to its end
Consecutive(r) ==
  /\ r + 1 \in RunIds
  /\ Done(r)
  /\ run[r + 1].pc # "idle"
  /\ ~run[r].overlapped
  /\ ~run[r + 1].overlapped

\* C1: at most one sync run is in flight (past the token check and not yet
\* returned) in every reachable state.
C1_OneSyncInFlight == Cardinality(RunsInFlight) <= 1

\* C2 as stated: of two sync calls run one after the other that get the same
\* listing, the second accumulates no transaction and no id.
C2_SecondSyncAddsNothing ==
  \A r \in RunIds :
    (Consecutive(r) /\ Listed(r) /\ Done(r + 1) /\ Listed(r + 1)
       /\ run[r + 1].messages = run[r].messages)
    => /\ run[r + 1].results = <<>>
       /\ run[r + 1].successfulIds = <<>>

\* C2 as amended: of two sync calls run one after the other that get the same
\* listing, the second attempts extraction only for messages whose extraction
\* failed in the first; when none failed in the first, the second finds
\* nothing new, accumulates nothing and leaves transactions and syncedIds as
\* they were at its entry.
C2_SecondSyncOnlyRetries ==
  \A r \in RunIds :
    (Consecutive(r) /\ Listed(r) /\ Listed(r + 1)
       /\ run[r + 1].messages = run[r].messages)
    => /\ Range(run[r + 1].attempts) \subseteq run[r].failed
       /\ Range(run[r + 1].successfulIds) \subseteq run[r].failed
       /\ run[r].failed = {} =>
            /\ run[r + 1].outcome = "nothingNew"
            /\ run[r + 1].results = <<>>
            /\ run[r + 1].successfulIds = <<>>
            /\ (RunsInFlight = {} /\ nSync = r + 1 /\ manualPc = "idle"
                  /\ nManual = 0) =>
                 /\ transactions = run[r + 1].entryTrans
                 /\ syncedIds = run[r + 1].entryIds

\* C2 witness: two consecutive syncs got the same non-empty listing, the first
\* merged every message and the second is over.
C2_Witness ==
  \E r \in RunIds :
    /\ Consecutive(r) /\ Done(r + 1)
    /\ run[r].outcome = "merged" /\ run[r].failed = {}
    /\ Len(run[r].messages) >= 2
    /\ Listed(r + 1) /\ run[r + 1].messages = run[r].messages

\* C3: the step in which a sync's listing call fails leaves transactions and
\* syncedIds, and both stored blobs, as they were.
C3_ListFailKeepsLedger ==
  [][\A r \in RunIds :
       (run[r].pc = "listing" /\ run'[r].pc = "done"
          /\ run'[r].outcome \in ListFailures \cup {"notAuthenticated"})
       => UNCHANGED <<transactions, syncedIds, storedTrans, storedIds>>]_vars

\* C3 witness: a sync ended on a listing failure while the ledger and the
\* storage held a transaction.
C3_Witness ==
  \E r \in RunIds :
    /\ Done(r) /\ ListFailed(r)
    /\ transactions # <<>> /\ syncedIds # <<>>
    /\ transactions = run[r].entryTrans
    /\ storedTrans = JsonStringify(transactions)

\* a step of run r leaves the number of occurrences in syncedIds of every id
\* whose extraction failed in r as it was
C4_NoFailedIdAdded ==
  \A r \in RunIds :
    run'[r] # run[r] =>
      \A m \in run'[r].failed : Count(m, syncedIds') = Count(m, syncedIds)

\* a message that failed in run r is a new message of the next run that lists it
C4_FailedIsRetried ==
  \A r \in RunIds :
    (Consecutive(r) /\ Listed(r + 1)) =>
      \A m \in run[r].failed :
        Includes(run[r + 1].messages, m) =>
          /\ Includes(run[r + 1].newMessages, m)
          /\ Done(r + 1) => Includes(run[r + 1].attempts, m)

\* C4: no step of a sync run adds to syncedIds an id whose extraction failed
\* in that run, and when the next sync is called after that run's return and
\* its listing still holds the message, the message is among those it
\* attempts.
C4_FailedExtractionRetryable ==
  /\ [][C4_NoFailedIdAdded]_vars
  /\ []C4_FailedIsRetried

\* C4 witness: an extraction failed in one sync, that sync merged another
\* message, and the next sync has attempted the failed message again.
C4_Witness ==
  \E r \in RunIds :
    /\ Consecutive(r) /\ Done(r + 1)
    /\ run[r].outcome = "merged"
    /\ \E m \in run[r].failed :
         /\ ~Includes(syncedIds, m)
         /\ Includes(run[r + 1].attempts, m)

\* every transaction the ledger or a run's accumulator holds
Accepted ==
  {transactions[i].tx : i \in 1..Len(transactions)} \cup
  UNION {{run[r].results[i].tx : i \in 1..Len(run[r].results)} : r \in RunIds}

\* C5: every transaction in the ledger has a category of the closed
\* enumeration.
C5_CategoryClosure ==
  \A i \in 1..Len(transactions) :
    /\ "category" \in DOMAIN transactions[i].tx
    /\ transactions[i].tx.category \in ExpenseCategory

\* C6: every transaction in the ledger has amount >= 0.
C6_AmountNonNegative ==
  \A i \in 1..Len(transactions) :
    /\ "amount" \in DOMAIN transactions[i].tx
    /\ transactions[i].tx.amount >= 0

\* C7: every transaction the extraction service returned (held by the ledger
\* or by a run's accumulator) carries the six required fields and an id.
C7_NoPartialTransaction ==
  \A tx \in Accepted : RequiredFields \cup {"id"} \subseteq DOMAIN tx

\* the listed messages whose id is not in ids, in listing order
RECURSIVE Unprocessed(_, _)
Unprocessed(msgs, ids) ==
  IF msgs = <<>> THEN <<>>
  ELSE IF Head(msgs) \in Range(ids) THEN Unprocessed(Tail(msgs), ids)
  ELSE <<Head(msgs)>> \o Unprocessed(Tail(msgs), ids)

\* C8: the extraction calls a sync has made are, in order, the listed
\* messages whose id was not in syncedIds when the sync was called: a prefix
\* of them while the run is extracting, all of them once it is over, none of
\* them twice.
C8_AttemptsAreTheNewMessages ==
  \A r \in RunIds :
    Listed(r) =>
      LET expected == Unprocessed(run[r].messages, run[r].entryIds)
      IN /\ IsPrefix(run[r].attempts, expected)
         /\ Done(r) => run[r].attempts = expected
         /\ run[r].pc = "extracting" => Len(run[r].attempts) = run[r].i + 1
         /\ \A m \in MsgIds : Count(m, run[r].attempts) <= 1

\* C8 witness: with id 2 processed, a sync that listed <<1, 2, 3>> is over
\* and has attempted 1 then 3.
C8_Witness ==
  \E r \in RunIds :
    /\ Done(r)
    /\ run[r].messages = <<1, 2, 3>>
    /\ run[r].entryIds = <<2>>
    /\ run[r].attempts = <<1, 3>>

\* p is x = 100 * k / n rounded to the nearest integer, halves up
IsRounded(p, k, n) == 2 * n * p <= 200 * k + n /\ 200 * k + n < 2 * n * (p + 1)

\* C9: the progress values a sync has reported are 0 followed by
\* round(100 * k / n) for k = 1, 2, ... in that order, never decreasing, with
\* 100 as the last one once all n new messages have been attempted.
C9_ProgressSequence ==
  \A r \in RunIds :
    LET p == run[r].progress
        n == Len(run[r].newMessages)
    IN /\ run[r].pc # "idle" => Len(p) >= 1 /\ p[1] = 0
       /\ Len(p) <= n + 1
       /\ \A k \in 1..(Len(p) - 1) : IsRounded(p[k + 1], k, n)
       /\ \A k \in 1..(Len(p) - 1) : p[k] <= p[k + 1]
       /\ run[r].pc = "extracting" => Len(p) = run[r].i + 2
       /\ (Done(r) /\ n > 0) => Len(p) = n + 1 /\ p[n + 1] = 100

\* C9 witness: a sync with three new messages is over and has reported
\* 0, 33, 67, 100.
C9_Witness ==
  \E r \in RunIds : Done(r) /\ run[r].progress = <<0, 33, 67, 100>>

\* C10: the step in which a manual paste's extraction comes back failed
\* leaves transactions, syncedIds and the stored blobs as they were, shows the
\* failure alert and clears isParsing.
C10_ManualFailure ==
  [][(manualPc = "awaiting" /\ manualPc' = "idle"
        /\ manualKind' \in {"threw", "empty", "malformed"})
     => /\ UNCHANGED <<transactions, syncedIds, storedTrans, storedIds>>
        /\ lastAlert' = "manualFailed"
        /\ isParsing' = FALSE]_vars

\* C10 witness: a manual paste failed on malformed model output while the
\* ledger held a transaction.
C10_Witness ==
  /\ manualKind = "malformed"
  /\ manualPc = "idle"
  /\ lastAlert = "manualFailed"
  /\ ~isParsing
  /\ transactions # <<>>

\* the messages of s that are not in the set skip, in the order of s
Keep(s, skip) ==
  LET Test(m) == m \notin skip IN SelectSeq(s, Test)
Sources(results) == [k \in 1..Len(results) |-> results[k].src]

\* C11: a failed extraction never ends the loop: while a run extracts, the
\* messages attempted so far are the first i + 1 new messages whatever failed
\* before; a run that went through the loop attempted every new message, its
\* accumulated ids are exactly the new messages that did not fail, in order,
\* one result each, and all of them are then in transactions and syncedIds.
C11_FailureDoesNotAbort ==
  \A r \in RunIds :
    LET me == run[r] IN
    /\ me.pc = "extracting"
         => me.attempts = SubSeq(me.newMessages, 1, me.i + 1)
    /\ (Done(r) /\ me.outcome \in {"merged", "noResults"})
         => /\ me.attempts = me.newMessages
            /\ me.successfulIds = Keep(me.newMessages, me.failed)
            /\ Sources(me.results) = me.successfulIds
            /\ \A k \in 1..Len(me.results) :
                 /\ Includes(transactions, me.results[k])
                 /\ Includes(syncedIds, me.successfulIds[k])

\* C11 witness: of three new messages the second failed; the first and the
\* third were merged.
C11_Witness ==
  \E r \in RunIds :
    /\ Done(r)
    /\ run[r].newMessages = <<1, 2, 3>>
    /\ run[r].failed = {2}
    /\ run[r].successfulIds = <<1, 3>>
    /\ Includes(syncedIds, 1) /\ Includes(syncedIds, 3)
    /\ ~Includes(syncedIds, 2)

\* C12: the step that merges a run's k accumulated results puts them, in
\* order, in front of the transactions held at that moment, and their k
\* source ids, in the same order, in front of the syncedIds held at that
\* moment; what was there before follows unchanged.
C12_MergePrepends ==
  [][\A r \in RunIds :
       (run[r].pc = "extracting" /\ run'[r].outcome = "merged")
       => LET res == run'[r].results
              ids == run'[r].successfulIds
          IN /\ Len(res) > 0
             /\ Sources(res) = ids
             /\ transactions' = res \o transactions
             /\ syncedIds' = ids \o syncedIds]_vars

\* C12 witness: a run alone merged two results in front of a ledger that
\* already held a transaction and an id.
C12_Witness ==
  \E r \in RunIds :
    /\ Done(r)
    /\ ~run[r].overlapped
    /\ Len(run[r].results) = 2
    /\ run[r].entryTrans # <<>>
    /\ run[r].entryIds # <<>>
    /\ IsPrefix(run[r].results, transactions)
    /\ IsPrefix(run[r].successfulIds, syncedIds)

\* C13: the step of a sync call made with no token (requestToken is called:
\* a token request becomes pending) starts no run, so no listing and no
\* extraction, leaves isSyncing, syncProgress, the ledger, the stored blobs
\* and the tokens as they were; and a run only ever starts with a token held.
C13_NoTokenNoSync ==
  [][/\ (gmailToken = Null /\ ~awaitingToken /\ awaitingToken')
        => UNCHANGED <<nSync, run, isSyncing, syncProgress, lastAlert,
                       transactions, syncedIds, storedTrans, storedIds,
                       gmailToken, accessToken>>
     /\ nSync' # nSync => gmailToken # Null]_vars

\* C13 witness: a sync call without a token has asked for one; nothing is in
\* flight, the flag is down, and the ledger of the earlier session is there.
C13_Witness ==
  /\ awaitingToken
  /\ gmailToken = Null
  /\ nSync = 0
  /\ ~isSyncing
  /\ transactions = SavedTrans

\* C14: the step in which the listing is rejected for authorization ends the
\* run with nothing attempted, shows the sync-failed alert, clears gmailToken
\* and isSyncing and leaves the ledger alone; and as long as gmailToken is
\* cleared a sync call cannot start a listing, it asks for a token.
C14_AuthFailureClearsToken ==
  /\ [][\A r \in RunIds :
         (run[r].pc = "listing" /\ run'[r].outcome = "auth")
         => /\ run'[r].pc = "done"
            /\ run'[r].attempts = <<>>
            /\ lastAlert' = "syncFailed"
            /\ gmailToken' = Null
            /\ isSyncing' = FALSE
            /\ UNCHANGED <<transactions, syncedIds, storedTrans,
                           storedIds>>]_vars
  /\ [](gmailToken = Null
         => /\ ~ENABLED SyncClick
            /\ (phase = "ready" /\ client /\ ~awaitingToken)
                 => ENABLED SyncNoToken)

\* C14 witness: a listing was rejected for authorization, the token is
\* cleared, and the next sync call has asked for a new one.
C14_Witness ==
  \E r \in RunIds :
    /\ Done(r)
    /\ run[r].outcome = "auth"
    /\ run[r].attempts = <<>>
    /\ gmailToken = Null
    /\ lastAlert = "syncFailed"
    /\ awaitingToken

\* C15: once a listing has been rejected for authorization, and until a
\* new token arrives through the consent callback (gmailToken is still
\* cleared), the GmailService object holds no access token.
C15_ClientUnauthenticated ==
  \A r \in RunIds :
    (Done(r) /\ run[r].outcome = "auth" /\ gmailToken = Null)
    => accessToken = Null

\* C16 as stated: for every text, safeDecode of the unpadded URL-safe base64
\* of its UTF-8 bytes is the text itself.
C16_RoundTrip ==
  codec.pc = "returned" => codec.out = codec.text

\* C16, amended: safeDecode of the unpadded URL-safe base64 of a text gives
\* the text back, except that a byte order mark U+FEFF at the very start of
\* the text is left out.
C16_RoundTripButLeadingBom ==
  codec.pc = "returned"
  => codec.out = IF codec.text # <<>> /\ codec.text[1] = Bom
                 THEN Tail(codec.text) ELSE codec.text

\* C16 witness: an emoji, a question mark and the rupee sign, whose encoding
\* holds both - and _ and has a length that is not a multiple of four, came
\* back as they were.
C16_Witness ==
  /\ codec.pc = "returned"
  /\ codec.text = <<128512, 63, 8377>>
  \* 8J-YgD_igrk
  /\ codec.str = <<56, 74, 45, 89, 103, 68, 95, 105, 103, 114, 107>>
  /\ Includes(codec.str, Minus) /\ Includes(codec.str, Underscore)
  /\ Len(codec.str) % 4 # 0
  /\ codec.out = codec.text

\* C17: once the list request has named messages the call is never
\* rejected, whatever happens to the detail requests; it resolves as soon as
\* every detail request is back, and its result is then the listed messages
\* whose detail request did not fail, each under its listed id, in the order
\* of the listing.
C17_DetailFailureIsolated ==
  /\ mail.pc = "rejected" => mail.listed = <<>>
  /\ mail.pc = "details" => \E k \in 1..Len(mail.listed) : mail.detail[k] = Pending
  /\ mail.pc = "resolved"
       => LET kept == SelectSeq([k \in 1..Len(mail.listed) |-> k],
                                LAMBDA k : k \notin mail.failed)
          IN /\ Len(mail.out) = Len(kept)
             /\ \A j \in 1..Len(kept) : mail.out[j].id = mail.listed[kept[j]]

\* C17 witness: of three listed messages the detail request of the second
\* failed; the call resolved with the first and the third.
C17_Witness ==
  /\ mail.pc = "resolved"
  /\ mail.listed = <<1, 2, 3>>
  /\ mail.failed = {2}
  /\ Len(mail.out) = 2
  /\ mail.out[1].id = 1 /\ mail.out[2].id = 3

\* C18: once the load has been rendered, in every state (so after every
\* manual add and every sync merge, as soon as the effect has run) the stored
\* transaction blob is the JSON of transactions and the stored id blob is the
\* JSON of syncedIds: both are rewritten together.
C18_StorageFollowsState ==
  phase = "ready"
  => /\ storedTrans = JsonStringify(transactions)
     /\ storedIds = JsonStringify(syncedIds)

\* C18 witness: a manual add and a sync merge have both happened, and the
\* two blobs hold the ledger.
C18_Witness ==
  /\ phase = "ready"
  /\ manualKind = "json"
  /\ \E r \in RunIds : Done(r) /\ run[r].outcome = "merged"
  /\ Len(transactions) >= 3
  /\ syncedIds # <<>>
  /\ storedTrans = JsonStringify(transactions)
  /\ storedIds = JsonStringify(syncedIds)

\* C19: the step in which the listing comes back with no new message ends the
\* run with nothing attempted, shows the nothing-new alert, clears isSyncing,
\* and leaves the ledger, the stored blobs and both tokens as they were.
C19_NothingNew ==
  [][\A r \in RunIds :
       (run[r].pc = "listing" /\ run'[r].outcome = "nothingNew")
       => /\ run'[r].pc = "done"
          /\ run'[r].attempts = <<>>
          /\ run'[r].results = <<>>
          /\ lastAlert' = "nothingNew"
          /\ isSyncing' = FALSE
          /\ UNCHANGED <<transactions, syncedIds, storedTrans, storedIds,
                         gmailToken, accessToken>>]_vars

\* C19 witness: a listing of two messages, both processed already, ended a
\* run with the nothing-new alert; the token is held and the flag is down.
C19_Witness ==
  \E r \in RunIds :
    /\ Done(r)
    /\ run[r].outcome = "nothingNew"
    /\ Len(run[r].messages) = 2
    /\ run[r].attempts = <<>>
    /\ gmailToken = Token
    /\ lastAlert = "nothingNew"
    /\ ~isSyncing
    /\ transactions = run[r].entryTrans

\* C20: when every awaited network call comes back or fails, every run that
\* raised isSyncing comes to its end; the step that ends a run, by whichever
\* path, leaves isSyncing cleared; whenever the flag is up it comes down; and
\* with no run in flight the flag is never up.
C20_FlagEventuallyCleared ==
  /\ \A r \in RunIds : InFlight(r) ~> Done(r)
  /\ isSyncing ~> ~isSyncing
  /\ [][\A r \in RunIds : (InFlight(r) /\ run'[r].pc = "done")
                            => isSyncing' = FALSE]_vars
  /\ [](RunsInFlight = {} => ~isSyncing)

\* C20 witness: one run ended on a listing failure and another after its
\* extractions; nothing is in flight and the flag is down.
C20_Witness ==
  /\ RunsInFlight = {}
  /\ ~isSyncing
  /\ \E r \in RunIds : Done(r) /\ run[r].outcome = "network"
  /\ \E r \in RunIds : Done(r) /\ run[r].outcome = "merged"

\* extraction calls of run r that have come back, and that were issued
Returned(r) == Len(run[r].successfulIds) + Cardinality(run[r].failed)
Issued(r) == Len(run[r].attempts)

\* C21: the percentage a run reported last is that of the number of its
\* extraction calls that have come back: k of n returned gives round(100 k/n),
\* and 100 only when all n are back.
C21_ProgressCountsCompleted ==
  \A r \in RunIds :
    LET n == Len(run[r].newMessages)
        p == run[r].progress
    IN (n > 0 /\ p # <<>>)
       => /\ IsRounded(p[Len(p)], Returned(r), n)
          /\ p[Len(p)] = 100 => Returned(r) = n

\* C22: a run has one extraction call in flight while it is in its loop and
\* none otherwise; the calls are issued in the order of the new messages, one
\* per step, and a step issues a call only when every call issued before has
\* come back.
C22_ExtractionsSequential ==
  /\ [](\A r \in RunIds :
          /\ Issued(r) - Returned(r) = IF run[r].pc = "extracting" THEN 1 ELSE 0
          /\ IsPrefix(run[r].attempts, run[r].newMessages))
  /\ [][\A r \in RunIds :
          Len(run'[r].attempts) > Issued(r)
          => /\ Len(run'[r].attempts) = Issued(r) + 1
             /\ Len(run'[r].successfulIds) + Cardinality(run'[r].failed)
                  = Issued(r)]_vars

\* C22 witness: a run waits for its third extraction; the first two are
\* back, one of them failed.
C22_Witness ==
  \E r \in RunIds :
    /\ run[r].pc = "extracting"
    /\ run[r].attempts = <<1, 2, 3>>
    /\ Returned(r) = 2
    /\ Cardinality(run[r].failed) = 1

ManualEntry == Entry(Stamp(GoodJson, "id1"), 0)

\* C23: every step that changes transactions puts something in front of
\* what is there (the manual transaction, or the results of the run that
\* ends) and drops nothing; so when a manual paste and a sync were suspended
\* at their extraction calls at the same time and both are over, the manual
\* transaction and every result of the sync are in the ledger, and once each
\* when they were the only manual paste and the only sync.
C23_NoLostUpdate ==
  /\ [][(phase = "ready" /\ transactions' # transactions)
        => \/ /\ manualPc = "awaiting"
              /\ transactions' = <<ManualEntry>> \o transactions
              /\ syncedIds' = syncedIds
           \/ \E r \in RunIds :
                /\ run[r].pc = "extracting" /\ run'[r].pc = "done"
                /\ transactions' = run'[r].results \o transactions
                /\ syncedIds' = run'[r].successfulIds \o syncedIds]_vars
  /\ [](\A r \in RunIds :
          (Done(r) /\ run[r].withManual /\ manualPc = "idle"
             /\ manualKind = "json")
          => /\ Includes(transactions, ManualEntry)
             /\ \A k \in 1..Len(run[r].results) :
                  Includes(transactions, run[r].results[k])
             /\ (nManual = 1 /\ nSync = 1)
                  => /\ Count(ManualEntry, transactions) = 1
                     /\ \A k \in 1..Len(run[r].results) :
                          Count(run[r].results[k], transactions) = 1
                     /\ Len(transactions)
                          = Len(run[r].entryTrans) + Len(run[r].results) + 1)

\* C23 witness: the only manual paste came back while the only sync was
\* suspended at an extraction; the sync then merged two results in front of
\* the manual transaction.
C23_Witness ==
  \E r \in RunIds :
    /\ Done(r)
    /\ run[r].withManual
    /\ nManual = 1 /\ nSync = 1
    /\ manualPc = "idle"
    /\ Len(run[r].results) = 2
    /\ transactions = run[r].results \o <<ManualEntry>> \o run[r].entryTrans

\* C24: the step in which a manual paste's extraction comes back with a
\* transaction puts exactly that one transaction in front of transactions,
\* what was there following in its order, and leaves syncedIds, both tokens,
\* the token request, the count and the locals of the sync runs other than
\* history, and the mailbox client as they were.
C24_ManualAddFrame ==
  [][(manualPc = "awaiting" /\ manualPc' = "idle" /\ manualKind' = "json")
     => /\ Len(transactions') = Len(transactions) + 1
        /\ transactions'[1].src = 0
        /\ Tail(transactions') = transactions
        /\ UNCHANGED <<syncedIds, gmailToken, accessToken, awaitingToken,
                       client, nSync, isSyncing, syncProgress, mail>>
        /\ \A r \in RunIds :
             run'[r] = [run[r] EXCEPT !.withManual = run'[r].withManual]
        /\ storedTrans' = JsonStringify(transactions')
        /\ isParsing' = FALSE]_vars

\* C24 witness: a manual paste succeeded on top of the ledger of an earlier
\* session, with a token held and no sync ever started.
C24_Witness ==
  /\ manualKind = "json"
  /\ manualPc = "idle"
  /\ transactions = <<ManualEntry>> \o SavedTrans
  /\ syncedIds = SavedIds
  /\ gmailToken = Token
  /\ nSync = 0

\* C25: in every reachable state the ids of the transactions held are
\* pairwise distinct.
C25_UniqueIds ==
  \A j, k \in 1..Len(transactions) :
    j # k => transactions[j].tx.id # transactions[k].tx.id

\* the body data of the nodes of a payload tree, in depth-first order
RECURSIVE DataInOrder(_)
DataInOrder(p) ==
  (IF p.data # NoData THEN <<p.data>> ELSE <<>>)
  \o Flatten([k \in 1..Len(p.parts) |-> DataInOrder(p.parts[k])])
\* the decoded body data in depth-first order, a node that bears data
\* standing for its whole subtree
RECURSIVE Candidates(_)
Candidates(p) ==
  IF p.data # NoData THEN <<safeDecode(p.data)>>
  ELSE Flatten([k \in 1..Len(p.parts) |-> Candidates(p.parts[k])])
FirstOr(s, default) == IF s = <<>> THEN default ELSE s[1]
NonEmptyOnes(s) == LET Test(x) == x # <<>> IN SelectSeq(s, Test)
\* the messages whose detail request came back with a payload
Answered == {k \in 1..Len(mail.detail) : mail.detail[k].st = "ok"}

\* C26 as stated: the text given to the extraction is the decoded body data
\* of the first node, in depth-first order, that bears body data, when that
\* text is not empty, and the snippet otherwise.
C26_FirstPartBearingData ==
  mail.pc \in {"details", "resolved"}
  => \A k \in Answered :
       LET data == DataInOrder(mail.answers[k].payload)
           body == IF data = <<>> THEN <<>> ELSE safeDecode(data[1])
       IN ExtractionInput(mail.detail[k].msg)
            = IF body # <<>> THEN body ELSE Snippet(mail.listed[k])

\* C26, amended: the text given to the extraction is the first non-empty
\* decoded body, in depth-first order over the payload tree, and the snippet
\* when no node yields a non-empty body; the message keeps its snippet, and
\* the call resolves with these messages.
C26_FirstNonEmptyBody ==
  mail.pc \in {"details", "resolved"}
  => /\ \A k \in Answered :
          LET msg == mail.detail[k].msg
          IN /\ ExtractionInput(msg)
                  = FirstOr(NonEmptyOnes(Candidates(mail.answers[k].payload)),
                            Snippet(mail.listed[k]))
             /\ msg.snippet = Snippet(mail.listed[k])
             /\ mail.pc = "resolved" => Includes(mail.out, msg)

\* C26 witness: three messages came back: one whose first part decodes to
\* nothing and whose second part gave the text, one without any body data,
\* which gave its snippet, and one with nested parts, which gave the text of
\* the innermost first.
C26_Witness ==
  /\ mail.pc = "resolved"
  /\ Len(mail.out) = 3
  /\ mail.answers[1].payload = BomFirstPayload
  /\ ExtractionInput(mail.out[1]) = <<65, 65>>
  /\ mail.answers[2].payload = EmptyPayload
  /\ ExtractionInput(mail.out[2]) = Snippet(2)
  /\ mail.answers[3].payload = MultipartPayload
  /\ ExtractionInput(mail.out[3]) = <<65, 65>>

\* C27: the load step leaves transactions and syncedIds both empty when
\* both keys are absent, and also when JSON.parse rejects either blob.
C27_ReadFailureMeansEmpty ==
  [][(phase = "boot" /\ phase' = "mounted"
        /\ \/ storedTrans = Absent /\ storedIds = Absent
           \/ storedTrans = Corrupt
           \/ storedIds = Corrupt)
     => transactions' = <<>> /\ syncedIds' = <<>>]_vars

\* C28: the step in which the listing fails for a reason other than
\* authorization (network, provider) ends the run and leaves gmailToken as
\* it was, so that the next sync call lists again without a consent flow.
C28_OtherFailureKeepsToken ==
  [][\A r \in RunIds :
       (run[r].pc = "listing" /\ run'[r].outcome \in {"network", "provider"})
       => /\ run'[r].pc = "done"
          /\ gmailToken' = gmailToken]_vars

\* transactions that came from message m
FromMessage(m) == {k \in 1..Len(transactions) : transactions[k].src = m}

\* C29: in every reachable state no message id is twice in syncedIds and no
\* message has more than one transaction in transactions.
C29_OneTransactionPerMessage ==
  \A m \in MsgIds :
    /\ Count(m, syncedIds) <= 1
    /\ Cardinality(FromMessage(m)) <= 1

\* C30: no step removes anything from the stored blobs: once a blob is a
\* JSON list it stays one, and every item of the stored transaction list and
\* of the stored id list is still in the list after the step.
C30_StorageNeverShrinks ==
  [][/\ storedTrans.kind = "json"
        => /\ storedTrans'.kind = "json"
           /\ \A k \in 1..Len(storedTrans.val) :
                Includes(storedTrans'.val, storedTrans.val[k])
     /\ storedIds.kind = "json"
        => /\ storedIds'.kind = "json"
           /\ \A k \in 1..Len(storedIds.val) :
                Includes(storedIds'.val, storedIds.val[k])]_vars

====
